---- MODULE Spec2Model ----
(***************************************************************************)
(* The mediaPerception action of video-perception.tsx: the render path     *)
(* that advertises the attachments of the conversation, and the handler    *)
(* that resolves an attachment, asks the description backend, commits the  *)
(* question/answer pairs and resumes the agent.                            *)
(*                                                                         *)
(* JavaScript values: a string is a TLA+ string, except a MIME type, which *)
(* is a sequence of one-character strings so that String.replace can be    *)
(* computed; undefined is the string Undefined; an array is a sequence; an *)
(* object is a record whose DOMAIN is its set of own keys.                 *)
(***************************************************************************)
EXTENDS Integers, Sequences, FiniteSets, TLC

\* ------------------------------------------------------------------ bounds
MaxQuestions == 2       \* longest questions list of a request
MaxAnswers == 2         \* longest answers list the backend returns
MaxRequests == 3        \* requests the agent emits one after the other
MaxMessages == 2        \* messages the conversation grows to
MaxAttachments == 2     \* attachments over the whole conversation
MaxListed == 2          \* attachments over the conversation that is rendered
MaxQaLen == 3           \* longest list given to makeQa on its own

\* ------------------------------------------------------------ JS values
Undefined == "<undefined>"

\* a test against null alone, which undefined and '' pass
Truthy_notNull(x) == x # "<null>"

\* `if (x)` on a string or undefined: undefined and '' are falsy
Truthy(x) == x # Undefined /\ x # ""

\* Array.prototype.includes
includes(arr, x) == \E k \in DOMAIN arr : arr[k] = x

\* ---------------------------------------------------------- MIME types
Image == <<"i", "m", "a", "g", "e", "/">>
ImageJpeg == Image \o <<"j", "p", "e", "g">>
ImagePng == Image \o <<"p", "n", "g">>
ImageWebp == Image \o <<"w", "e", "b", "p">>
VideoMp4 == <<"v", "i", "d", "e", "o", "/", "m", "p", "4">>
PlusFoo == <<"+", "f", "o", "o">>
PlusXml == <<"+", "x", "m", "l">>

\* line 18-53: the registered perception specs (describe is the backend call)
videoPerceptionSpecs == << [types |-> <<ImageJpeg, ImagePng, ImageWebp>>] >>

\* line 54: videoPerceptionSpecs.flatMap(spec => spec.types)
RECURSIVE flatTypes(_)
flatTypes(specs) ==
  IF specs = <<>> THEN <<>> ELSE Head(specs).types \o flatTypes(Tail(specs))

supportedVideoPerceptionTypes == flatTypes(videoPerceptionSpecs)

\* line 70: type.replace(/\+[\s\S]*$/, ''): the leftmost match starts at the
\* first '+' and the greedy class runs to the end of the string
FirstPlus(type) ==
  IF \E k \in DOMAIN type : type[k] = "+"
  THEN CHOOSE k \in DOMAIN type :
         type[k] = "+" /\ \A j \in 1..(k - 1) : type[j] # "+"
  ELSE 0

LastPlus(type) ==
  IF \E k \in DOMAIN type : type[k] = "+"
  THEN CHOOSE k \in DOMAIN type :
         type[k] = "+" /\ \A j \in (k + 1)..Len(type) : type[j] # "+"
  ELSE 0

typeClean_lastPlus(type) ==
  IF LastPlus(type) = 0 THEN type ELSE SubSeq(type, 1, LastPlus(type) - 1)

typeClean(type) ==
  IF FirstPlus(type) = 0 THEN type ELSE SubSeq(type, 1, FirstPlus(type) - 1)


\* ------------------------------------------------------ the conversation
RECURSIVE SeqsUpTo(_, _)
SeqsUpTo(S, n) ==
  IF n = 0 THEN {<<>>}
  ELSE LET shorter == SeqsUpTo(S, n - 1)
       IN shorter \cup {Append(s, x) : s \in {t \in shorter : Len(t) = n - 1}, x \in S}

AttachmentIds == {"a1", "a2"}
Urls == {Undefined, "http://x/1.png"}
Types == {ImagePng, ImageJpeg \o PlusFoo, VideoMp4}

\* types.ts Attachment: {id, type, url?}; a missing url reads as undefined
Attachments ==
  [id : AttachmentIds, type : Types, url : Urls]
    \cup {[id |-> "a1", type |-> ImagePng, url |-> ""]}

\* a message either has no attachments key or carries a list of attachments
PlainMessage == [method |-> "say"]
MessageWith(atts) == [method |-> "say", attachments |-> atts]
MessagesOver(pool, n) ==
  {PlainMessage} \cup {MessageWith(atts) : atts \in SeqsUpTo(pool, n) \ {<<>>}}

\* the types the render path meets: bare, with one suffix, with two,
\* with a leading '+', and with a longer name
ListedTypes ==
  { ImageJpeg, ImagePng, ImageWebp, VideoMp4,
    ImageJpeg \o PlusFoo, Image \o <<"s", "v", "g">> \o PlusXml,
    ImagePng \o PlusFoo \o PlusXml, VideoMp4 \o PlusFoo,
    <<"+">> \o ImagePng, ImagePng \o <<"x">> }

ListedAttachments == [id : {"a1"}, type : ListedTypes, url : {"http://x/1.png"}]

\* the conversation of the end-to-end scenario, and two with the other outcomes
Png(id, url) == [id |-> id, type |-> ImagePng, url |-> url]
ScenarioConversations ==
  { << MessageWith(<<Png("a1", "http://x/1.png")>>) >>,
    << PlainMessage,
       MessageWith(<< Png("a1", Undefined),
                      [id |-> "a2", type |-> ImageJpeg \o PlusFoo, url |-> "http://x/2.jpg"] >>) >>,
    << MessageWith(<<[id |-> "a1", type |-> VideoMp4, url |-> "http://x/3.mp4"]>>),
       MessageWith(<<Png("a2", "http://x/4.png"), Png("a2", "")>>) >> }

\* ------------------------------------------------------------- requests
RequestIds == AttachmentIds \cup {"missing"}
QuestionStrings == {"Describe the image.", "What's the mood/aesthetic?"}
AnswerStrings == {"A cat on a mat.", "Calm."}
QuestionLists == SeqsUpTo(QuestionStrings, MaxQuestions)
AnswerLists == SeqsUpTo(AnswerStrings, MaxAnswers)

\* line 92-97: the schema of message.args, {id: string, questions: string[]}
RequestArgs == [id : RequestIds, questions : QuestionLists]
ScenarioArgs == [id : RequestIds, questions : {<<"Describe the image.">>}]

Invocations == {1, 2}

VARIABLES
  messages,      \* conversation.messageCache.getMessages()
  descriptor,    \* what VideoPerceptionInner returned at the last render
  args,          \* e.data.message.args of the triggering message
  requests,      \* how many requests the agent has emitted
  retries,       \* how many invocations in a row have ended in retry()
  pc,            \* per invocation: idle, describe, commit, done, threw
  attachmentId,  \* per invocation: the handler's local attachmentId
  questions,     \* per invocation: the handler's local questions
  attachment,    \* per invocation: the handler's local attachment, <<>> if undefined
  qa,            \* per invocation: the handler's local qa
  describeP,     \* per invocation: the promise of mediaPerceptionSpec.describe
  commitP,       \* per invocation: the promise of e.commit()
  log            \* per invocation: the calls made on its collaborators, in order

vars == <<messages, descriptor, args, requests, retries, pc, attachmentId, questions,
          attachment, qa, describeP, commitP, log>>

locals == <<attachmentId, questions, attachment, qa>>

\* ------------------------------------------------------------- rendering
\* ../util/message-utils collectAttachments: every attachment of every message
RECURSIVE collectAttachments(_)
collectAttachments(msgs) ==
  IF msgs = <<>> THEN <<>>
  ELSE (IF "attachments" \in DOMAIN Head(msgs) THEN Head(msgs).attachments ELSE <<>>)
       \o collectAttachments(Tail(msgs))

\* a filter that lists only what the handler can process
isAvailable_queryable(att) ==
  includes(supportedVideoPerceptionTypes, att.type) /\ Truthy(att.url)

\* line 69-72: the availability filter
isAvailable(att) == includes(supportedVideoPerceptionTypes, typeClean(att.type))

RECURSIVE filterAvailable(_)
filterAvailable(atts) ==
  IF atts = <<>> THEN <<>>
  ELSE (IF isAvailable(Head(atts)) THEN <<Head(atts)>> ELSE <<>>)
       \o filterAvailable(Tail(atts))

ActionType == "mediaPerception"

\* line 65-239: the element VideoPerceptionInner returns for a conversation
render(msgs) ==
  LET attachments == filterAvailable(collectAttachments(msgs))
  IN IF Len(attachments) > 0
     THEN [rendered |-> TRUE, type |-> ActionType, attachments |-> attachments]
     ELSE [rendered |-> FALSE]

\* ----------------------------------------------------------- the handler
\* a handler that looks the id up in the list the descriptor advertised
handlerAttachments_advertised(msgs) ==
  IF descriptor.rendered THEN descriptor.attachments ELSE <<>>

\* line 146-156: the handler's own scan of the message history
RECURSIVE handlerAttachments(_)
handlerAttachments(msgs) ==
  IF msgs = <<>> THEN <<>>
  ELSE (IF "attachments" \in DOMAIN Head(msgs) THEN Head(msgs).attachments ELSE <<>>)
       \o handlerAttachments(Tail(msgs))

\* a lookup that falls back to the first attachment when no id matches
findAttachment_orFirst(atts, id) ==
  LET hits == {k \in DOMAIN atts : atts[k].id = id}
  IN IF hits = {} THEN (IF atts = <<>> THEN <<>> ELSE <<atts[1]>>)
     ELSE <<atts[CHOOSE k \in hits : \A j \in hits : k <= j]>>

\* a lookup in which a later attachment with the same id replaces an earlier one
findAttachment_last(atts, id) ==
  LET hits == {k \in DOMAIN atts : atts[k].id = id}
  IN IF hits = {} THEN <<>>
     ELSE <<atts[CHOOSE k \in hits : \A j \in hits : k >= j]>>

\* line 158: attachments.find(attachment => attachment.id === attachmentId)
findAttachment(atts, id) ==
  LET hits == {k \in DOMAIN atts : atts[k].id = id}
  IN IF hits = {} THEN <<>>
     ELSE <<atts[CHOOSE k \in hits : \A j \in hits : k <= j]>>

\* routing on the cleaned type, as the availability filter does
findSpec_typeClean(type) ==
  LET hits == {k \in DOMAIN videoPerceptionSpecs :
                 includes(videoPerceptionSpecs[k].types, typeClean(type))}
  IN IF hits = {} THEN <<>>
     ELSE <<videoPerceptionSpecs[CHOOSE k \in hits : \A j \in hits : k <= j]>>

\* routing that accepts any type beginning with a registered type
findSpec_startsWith(type) ==
  LET hits == {k \in DOMAIN videoPerceptionSpecs :
                 \E t \in DOMAIN videoPerceptionSpecs[k].types :
                   LET reg == videoPerceptionSpecs[k].types[t]
                   IN Len(reg) <= Len(type) /\ SubSeq(type, 1, Len(reg)) = reg}
  IN IF hits = {} THEN <<>>
     ELSE <<videoPerceptionSpecs[CHOOSE k \in hits : \A j \in hits : k <= j]>>

\* line 180: videoPerceptionSpecs.find(spec => spec.types.includes(type))
findSpec(type) ==
  LET hits == {k \in DOMAIN videoPerceptionSpecs :
                 includes(videoPerceptionSpecs[k].types, type)}
  IN IF hits = {} THEN <<>>
     ELSE <<videoPerceptionSpecs[CHOOSE k \in hits : \A j \in hits : k <= j]>>

\* the pairing with the answers read one place too far
makeQa_shifted(qs, answers) ==
  [index \in 1..Len(qs) |->
     [q |-> qs[index],
      a |-> IF index + 1 <= Len(answers) THEN answers[index + 1] ELSE Undefined]]

\* line 136-144: questions.map((q, index) => ({q, a: answers[index]}))
makeQa(qs, answers) ==
  [index \in 1..Len(qs) |->
     [q |-> qs[index],
      a |-> IF index <= Len(answers) THEN answers[index] ELSE Undefined]]

\* JSON.stringify of one pair: a key whose value is undefined is left out
JsonPair(pair) ==
  IF pair.a = Undefined THEN [q |-> pair.q] ELSE [q |-> pair.q, a |-> pair.a]

\* line 206-209: JSON.stringify({attachmentId: attachment.id, ...qa}); the
\* spread of an array gives the keys "0", "1", ...
JsonFindings(att, pairs) ==
  [attachmentId |-> att.id,
   indexed |-> [k \in 0..(Len(pairs) - 1) |-> JsonPair(pairs[k + 1])]]

ExcludedAction_componentName == "videoPerception"

ExcludedAction == "mediaPerception"

\* the calls the handler makes on its collaborators
DescribeCall(url, qs) == [op |-> "describe", url |-> url, questions |-> qs]
CommitCall(payload) == [op |-> "commit", args |-> payload]
ActCall(arguments) == [op |-> "act", arguments |-> arguments]

\* retry() with a cap: after two retries in a row it gives up silently
retry_capped == IF retries >= 2 THEN <<>> ELSE <<ActCall(<<>>)>>

\* retry() passing the exclusion the resuming call passes
retry_excluding == <<ActCall(<<Undefined, [excludeActions |-> <<ExcludedAction>>]>>)>>

\* line 133-135: retry = () => { agent.act(); }, as the calls it makes
retry == <<ActCall(<<>>)>>

\* line 202-213: the resuming agent.act(message, {excludeActions})
resume(att, pairs) ==
  ActCall(<<[text |-> "Your character looked at an attachment and discovered the following:",
             json |-> JsonFindings(att, pairs)],
            [excludeActions |-> <<ExcludedAction>>]>>)

NoPromise == [state |-> "none", value |-> <<>>]
Pending == [state |-> "pending", value |-> <<>>]
Fulfilled(v) == [state |-> "fulfilled", value |-> v]
Rejected == [state |-> "rejected", value |-> <<>>]

\* no invocation has run on the triggering message yet
Fresh ==
  /\ pc = [i \in Invocations |-> "idle"]
  /\ attachmentId = [i \in Invocations |-> Undefined]
  /\ questions = [i \in Invocations |-> <<>>]
  /\ attachment = [i \in Invocations |-> <<>>]
  /\ qa = [i \in Invocations |-> <<>>]
  /\ describeP = [i \in Invocations |-> NoPromise]
  /\ commitP = [i \in Invocations |-> NoPromise]
  /\ log = [i \in Invocations |-> <<>>]

\* -------------------------------------------------------- environment
\* the conversation appends a message
AppendMessage(m) ==
  /\ messages' = Append(messages, m)
  /\ UNCHANGED <<descriptor, args, requests, retries, pc, locals, describeP, commitP, log>>

\* React renders VideoPerceptionInner again from the live message list
Render ==
  /\ descriptor' = render(messages)
  /\ descriptor' # descriptor
  /\ UNCHANGED <<messages, args, requests, retries, pc, locals, describeP, commitP, log>>

Settled(i) == pc[i] \in {"done", "threw"}

\* the agent emits the next request: a new triggering message, new invocations
AgentRequest(I, request) ==
  /\ \A i \in I : Settled(i)
  /\ args' = request
  /\ requests' = requests + 1
  /\ pc' = [i \in Invocations |-> "idle"]
  /\ attachmentId' = [i \in Invocations |-> Undefined]
  /\ questions' = [i \in Invocations |-> <<>>]
  /\ attachment' = [i \in Invocations |-> <<>>]
  /\ qa' = [i \in Invocations |-> <<>>]
  /\ describeP' = [i \in Invocations |-> NoPromise]
  /\ commitP' = [i \in Invocations |-> NoPromise]
  /\ log' = [i \in Invocations |-> <<>>]
  /\ UNCHANGED <<messages, descriptor, retries>>

\* ------------------------------------------------------ handler steps
\* HandlerStart deduplicating: with another invocation in flight on the same
\* message it returns at once and leaves the work to that one
HandlerStart_dedup(i) ==
  /\ descriptor.rendered
  /\ pc[i] = "idle"
  /\ LET id == args.id
         qs == args.questions
         found == findAttachment(handlerAttachments(messages), id)
         goes == /\ found # <<>>
                 /\ Truthy(found[1].url)
                 /\ findSpec(found[1].type) # <<>>
         busy == \E j \in Invocations \ {i} : pc[j] \in {"describe", "commit"}
     IN /\ attachmentId' = [attachmentId EXCEPT ![i] = id]
        /\ questions' = [questions EXCEPT ![i] = qs]
        /\ attachment' = [attachment EXCEPT ![i] = found]
        /\ IF goes /\ busy
           THEN /\ pc' = [pc EXCEPT ![i] = "done"]
                /\ UNCHANGED <<log, describeP, retries>>
           ELSE IF goes
           THEN /\ log' = [log EXCEPT ![i] = Append(@, DescribeCall(found[1].url, qs))]
                /\ describeP' = [describeP EXCEPT ![i] = Pending]
                /\ pc' = [pc EXCEPT ![i] = "describe"]
                /\ retries' = 0
           ELSE /\ log' = [log EXCEPT ![i] = @ \o retry]
                /\ describeP' = describeP
                /\ pc' = [pc EXCEPT ![i] = "done"]
                /\ retries' = retries + 1
  /\ UNCHANGED <<messages, descriptor, args, requests, qa, commitP>>

\* HandlerStart writing an empty queries list to the payload before it retries
HandlerStart_clearsQueries(i) ==
  /\ descriptor.rendered
  /\ pc[i] = "idle"
  /\ LET id == args.id
         qs == args.questions
         found == findAttachment(handlerAttachments(messages), id)
         goes == /\ found # <<>>
                 /\ Truthy(found[1].url)
                 /\ findSpec(found[1].type) # <<>>
     IN /\ attachmentId' = [attachmentId EXCEPT ![i] = id]
        /\ questions' = [questions EXCEPT ![i] = qs]
        /\ attachment' = [attachment EXCEPT ![i] = found]
        /\ IF goes
           THEN /\ log' = [log EXCEPT ![i] = Append(@, DescribeCall(found[1].url, qs))]
                /\ describeP' = [describeP EXCEPT ![i] = Pending]
                /\ pc' = [pc EXCEPT ![i] = "describe"]
                /\ retries' = 0
                /\ args' = args
           ELSE /\ log' = [log EXCEPT ![i] = @ \o retry]
                /\ describeP' = describeP
                /\ pc' = [pc EXCEPT ![i] = "done"]
                /\ retries' = retries + 1
                /\ args' = [k \in DOMAIN args \cup {"queries"} |->
                              IF k = "queries" THEN <<>> ELSE args[k]]
  /\ UNCHANGED <<messages, descriptor, requests, qa, commitP>>

\* line 122-189 and 214-236: the handler up to its first suspension or return
HandlerStart(i) ==
  /\ descriptor.rendered
  /\ pc[i] = "idle"
  /\ LET id == args.id
         qs == args.questions
         found == findAttachment(handlerAttachments(messages), id)
         goes == /\ found # <<>>
                 /\ Truthy(found[1].url)
                 /\ findSpec(found[1].type) # <<>>
     IN /\ attachmentId' = [attachmentId EXCEPT ![i] = id]
        /\ questions' = [questions EXCEPT ![i] = qs]
        /\ attachment' = [attachment EXCEPT ![i] = found]
        /\ IF goes
           THEN /\ log' = [log EXCEPT ![i] = Append(@, DescribeCall(found[1].url, qs))]
                /\ describeP' = [describeP EXCEPT ![i] = Pending]
                /\ pc' = [pc EXCEPT ![i] = "describe"]
                /\ retries' = 0
           ELSE /\ log' = [log EXCEPT ![i] = @ \o retry]
                /\ describeP' = describeP
                /\ pc' = [pc EXCEPT ![i] = "done"]
                /\ retries' = retries + 1
  /\ UNCHANGED <<messages, descriptor, args, requests, qa, commitP>>

\* line 37-50: describeJson answers, or fails
DescribeSettles(i, outcome) ==
  /\ pc[i] = "describe"
  /\ describeP[i] = Pending
  /\ describeP' = [describeP EXCEPT ![i] = outcome]
  /\ UNCHANGED <<messages, descriptor, args, requests, retries, pc, locals, commitP, log>>

\* AfterDescribe without the await on e.commit(): the agent is resumed at once
AfterDescribe_noAwait(i) ==
  /\ pc[i] = "describe"
  /\ describeP[i].state \in {"fulfilled", "rejected"}
  /\ IF describeP[i].state = "fulfilled"
     THEN LET pairs == makeQa(questions[i], describeP[i].value)
              payload == [k \in DOMAIN args \cup {"queries"} |->
                            IF k = "queries" THEN pairs ELSE args[k]]
          IN /\ qa' = [qa EXCEPT ![i] = pairs]
             /\ args' = payload
             /\ log' = [log EXCEPT ![i] =
                          @ \o <<CommitCall(payload), resume(attachment[i][1], pairs)>>]
             /\ commitP' = [commitP EXCEPT ![i] = Pending]
             /\ pc' = [pc EXCEPT ![i] = "done"]
     ELSE /\ pc' = [pc EXCEPT ![i] = "threw"]
          /\ UNCHANGED <<qa, args, log, commitP>>
  /\ UNCHANGED <<messages, descriptor, requests, retries, attachmentId, questions,
                 attachment, describeP>>

\* AfterDescribe calling e.commit() before the pairs are written to the payload
AfterDescribe_commitFirst(i) ==
  /\ pc[i] = "describe"
  /\ describeP[i].state \in {"fulfilled", "rejected"}
  /\ IF describeP[i].state = "fulfilled"
     THEN LET pairs == makeQa(questions[i], describeP[i].value)
              payload == [k \in DOMAIN args \cup {"queries"} |->
                            IF k = "queries" THEN pairs ELSE args[k]]
          IN /\ qa' = [qa EXCEPT ![i] = pairs]
             /\ args' = payload
             /\ log' = [log EXCEPT ![i] = Append(@, CommitCall(args))]
             /\ commitP' = [commitP EXCEPT ![i] = Pending]
             /\ pc' = [pc EXCEPT ![i] = "commit"]
     ELSE /\ pc' = [pc EXCEPT ![i] = "threw"]
          /\ UNCHANGED <<qa, args, log, commitP>>
  /\ UNCHANGED <<messages, descriptor, requests, retries, attachmentId, questions,
                 attachment, describeP>>

\* AfterDescribe with a catch around the backend call that falls back to retry()
AfterDescribe_catchRetry(i) ==
  /\ pc[i] = "describe"
  /\ describeP[i].state \in {"fulfilled", "rejected"}
  /\ IF describeP[i].state = "fulfilled"
     THEN LET pairs == makeQa(questions[i], describeP[i].value)
              payload == [k \in DOMAIN args \cup {"queries"} |->
                            IF k = "queries" THEN pairs ELSE args[k]]
          IN /\ qa' = [qa EXCEPT ![i] = pairs]
             /\ args' = payload
             /\ log' = [log EXCEPT ![i] = Append(@, CommitCall(payload))]
             /\ commitP' = [commitP EXCEPT ![i] = Pending]
             /\ pc' = [pc EXCEPT ![i] = "commit"]
     ELSE /\ pc' = [pc EXCEPT ![i] = "done"]
          /\ log' = [log EXCEPT ![i] = @ \o retry]
          /\ UNCHANGED <<qa, args, commitP>>
  /\ UNCHANGED <<messages, descriptor, requests, retries, attachmentId, questions,
                 attachment, describeP>>

\* AfterDescribe throwing unless the backend gave one answer per question
AfterDescribe_validating(i) ==
  /\ pc[i] = "describe"
  /\ describeP[i].state \in {"fulfilled", "rejected"}
  /\ IF describeP[i].state = "fulfilled" /\ Len(describeP[i].value) = Len(questions[i])
     THEN LET pairs == makeQa(questions[i], describeP[i].value)
              payload == [k \in DOMAIN args \cup {"queries"} |->
                            IF k = "queries" THEN pairs ELSE args[k]]
          IN /\ qa' = [qa EXCEPT ![i] = pairs]
             /\ args' = payload
             /\ log' = [log EXCEPT ![i] = Append(@, CommitCall(payload))]
             /\ commitP' = [commitP EXCEPT ![i] = Pending]
             /\ pc' = [pc EXCEPT ![i] = "commit"]
     ELSE /\ pc' = [pc EXCEPT ![i] = "threw"]
          /\ UNCHANGED <<qa, args, log, commitP>>
  /\ UNCHANGED <<messages, descriptor, requests, retries, attachmentId, questions,
                 attachment, describeP>>

\* line 182-199: the handler continues after `await describe(...)`
AfterDescribe(i) ==
  /\ pc[i] = "describe"
  /\ describeP[i].state \in {"fulfilled", "rejected"}
  /\ IF describeP[i].state = "fulfilled"
     THEN LET pairs == makeQa(questions[i], describeP[i].value)
              payload == [k \in DOMAIN args \cup {"queries"} |->
                            IF k = "queries" THEN pairs ELSE args[k]]
          IN /\ qa' = [qa EXCEPT ![i] = pairs]
             /\ args' = payload
             /\ log' = [log EXCEPT ![i] = Append(@, CommitCall(payload))]
             /\ commitP' = [commitP EXCEPT ![i] = Pending]
             /\ pc' = [pc EXCEPT ![i] = "commit"]
     ELSE /\ pc' = [pc EXCEPT ![i] = "threw"]
          /\ UNCHANGED <<qa, args, log, commitP>>
  /\ UNCHANGED <<messages, descriptor, requests, retries, attachmentId, questions,
                 attachment, describeP>>

\* the host's e.commit() completes, or fails
CommitSettles(i, outcome) ==
  /\ pc[i] = "commit"
  /\ commitP[i] = Pending
  /\ commitP' = [commitP EXCEPT ![i] = outcome]
  /\ UNCHANGED <<messages, descriptor, args, requests, retries, pc, locals, describeP, log>>

\* AfterCommit falling through to the retry after the resuming call
AfterCommit_thenRetry(i) ==
  /\ pc[i] = "commit"
  /\ commitP[i].state \in {"fulfilled", "rejected"}
  /\ IF commitP[i].state = "fulfilled"
     THEN /\ log' = [log EXCEPT ![i] = Append(@, resume(attachment[i][1], qa[i])) \o retry]
          /\ pc' = [pc EXCEPT ![i] = "done"]
     ELSE /\ pc' = [pc EXCEPT ![i] = "threw"]
          /\ log' = log
  /\ UNCHANGED <<messages, descriptor, args, requests, retries, locals, describeP, commitP>>

\* AfterCommit taking queries off the payload again when the commit failed
AfterCommit_rollback(i) ==
  /\ pc[i] = "commit"
  /\ commitP[i].state \in {"fulfilled", "rejected"}
  /\ IF commitP[i].state = "fulfilled"
     THEN /\ log' = [log EXCEPT ![i] = Append(@, resume(attachment[i][1], qa[i]))]
          /\ pc' = [pc EXCEPT ![i] = "done"]
          /\ args' = args
     ELSE /\ pc' = [pc EXCEPT ![i] = "threw"]
          /\ log' = log
          /\ args' = [k \in DOMAIN args \ {"queries"} |-> args[k]]
  /\ UNCHANGED <<messages, descriptor, requests, retries, locals, describeP, commitP>>

\* line 199-213: the handler continues after `await e.commit()`
AfterCommit(i) ==
  /\ pc[i] = "commit"
  /\ commitP[i].state \in {"fulfilled", "rejected"}
  /\ IF commitP[i].state = "fulfilled"
     THEN /\ log' = [log EXCEPT ![i] = Append(@, resume(attachment[i][1], qa[i]))]
          /\ pc' = [pc EXCEPT ![i] = "done"]
     ELSE /\ pc' = [pc EXCEPT ![i] = "threw"]
          /\ log' = log
  /\ UNCHANGED <<messages, descriptor, args, requests, retries, locals, describeP, commitP>>

\* line 122-237: one invocation of the handler, the backend answering from Answers
Handler(i, Answers) ==
  \/ HandlerStart(i)
  \/ \E answers \in Answers : DescribeSettles(i, Fulfilled(answers))
  \/ DescribeSettles(i, Rejected)
  \/ AfterDescribe(i)
  \/ CommitSettles(i, Fulfilled(<<>>))
  \/ CommitSettles(i, Rejected)
  \/ AfterCommit(i)

\* ------------------------------------------------------- the workflow
\* a conversation that already holds its attachments; the agent emits one
\* request after the other and the host runs one invocation for each
Init ==
  /\ messages \in ScenarioConversations
  /\ descriptor = render(messages)
  /\ args \in RequestArgs
  /\ requests = 1
  /\ retries = 0
  /\ Fresh

Next ==
  \/ \E request \in RequestArgs : requests < MaxRequests /\ AgentRequest({1}, request)
  \/ Handler(1, AnswerLists)

Spec == Init /\ [][Next]_vars

\* ----------------------------------------------------- the resolution
\* a conversation that grows while the component renders and one request runs
InitResolve ==
  /\ messages = <<>>
  /\ descriptor = render(messages)
  /\ args \in ScenarioArgs
  /\ requests = 1
  /\ retries = 0
  /\ Fresh

NextResolve ==
  \/ /\ Len(messages) < MaxMessages
     /\ \E m \in MessagesOver(Attachments, MaxAttachments - Len(collectAttachments(messages))) :
          AppendMessage(m)
  \/ Render
  \/ Handler(1, {<<"A cat on a mat.">>})

SpecResolve == InitResolve /\ [][NextResolve]_vars

\* ---------------------------------------------------- two invocations
\* the host runs two invocations of the handler on the same triggering
\* message; they interleave at the backend call and at the commit
NextConcurrent ==
  \/ Handler(1, AnswerLists)
  \/ Handler(2, AnswerLists)

SpecConcurrent == Init /\ [][NextConcurrent]_vars

\* -------------------------------------------------------- the routing
\* one request on a conversation whose first attachment has any of the types
\* below; the second attachment keeps the action rendered
RoutedTypes ==
  ListedTypes \cup {Image \o <<"p", "n">>, Image \o <<"P", "N", "G">>, <<>>}

InitRoute ==
  /\ messages \in {<< MessageWith(<< [id |-> "a1", type |-> t, url |-> "http://x/1.png"],
                                     Png("a2", "http://x/2.png") >>) >> : t \in RoutedTypes}
  /\ descriptor = render(messages)
  /\ args \in ScenarioArgs
  /\ requests = 1
  /\ retries = 0
  /\ Fresh

NextRoute == Handler(1, {<<"A cat on a mat.">>})

SpecRoute == InitRoute /\ [][NextRoute]_vars

\* -------------------------------------------------------- the listing
\* the component renders again and again while the conversation grows
InitRender ==
  /\ messages = <<>>
  /\ descriptor = render(messages)
  /\ args \in ScenarioArgs
  /\ requests = 1
  /\ retries = 0
  /\ Fresh

NextRender ==
  \/ /\ Len(messages) < MaxMessages
     /\ \E m \in MessagesOver(ListedAttachments,
                               MaxListed - Len(collectAttachments(messages))) :
          AppendMessage(m)
  \/ Render

SpecRender == InitRender /\ [][NextRender]_vars

\* ------------------------------------------------------ makeQa alone
\* line 196: const qa = makeQa(questions, answers), on lists of any lengths
Assemble(i) ==
  /\ pc[i] = "idle"
  /\ qa' = [qa EXCEPT ![i] = makeQa(questions[i], describeP[i].value)]
  /\ pc' = [pc EXCEPT ![i] = "done"]
  /\ UNCHANGED <<messages, descriptor, args, requests, retries, attachmentId, questions,
                 attachment, describeP, commitP, log>>

InitQa ==
  /\ messages = <<>>
  /\ descriptor = render(messages)
  /\ args \in [id : {"a1"}, questions : SeqsUpTo(QuestionStrings, MaxQaLen)]
  /\ requests = 1
  /\ retries = 0
  /\ pc = [i \in Invocations |-> "idle"]
  /\ attachmentId = [i \in Invocations |-> args.id]
  /\ questions = [i \in Invocations |-> args.questions]
  /\ attachment = [i \in Invocations |-> <<>>]
  /\ qa = [i \in Invocations |-> <<>>]
  /\ \E answers \in SeqsUpTo(AnswerStrings, MaxQaLen) :
       describeP = [i \in Invocations |-> Fulfilled(answers)]
  /\ commitP = [i \in Invocations |-> NoPromise]
  /\ log = [i \in Invocations |-> <<>>]

NextQa == Assemble(1)

SpecQa == InitQa /\ [][NextQa]_vars

\* ===================================================== the claims
\* how many calls of one kind invocation i has made
Calls(i, op) == Cardinality({k \in DOMAIN log[i] : log[i][k].op = op})

\* invocation i has made exactly one call, agent.act() with no arguments
RetriedOnce(i) ==
  /\ Len(log[i]) = 1
  /\ log[i][1].op = "act"
  /\ Len(log[i][1].arguments) = 0

\* positions (m, k) of the attachments of a message list, in scan order
Positions(msgs) ==
  UNION {{<<m, k>> : k \in DOMAIN msgs[m].attachments} :
           m \in {n \in DOMAIN msgs : "attachments" \in DOMAIN msgs[n]}}

Before(p, r) == p[1] < r[1] \/ (p[1] = r[1] /\ p[2] < r[2])

At(msgs, p) == msgs[p[1]].attachments[p[2]]

\* no attachment of any message has this id
NoMatch(msgs, id) == \A p \in Positions(msgs) : At(msgs, p).id # id

\* the earliest attachment with this id, as a set of at most one position
Resolved(msgs, id) ==
  {p \in Positions(msgs) :
     /\ At(msgs, p).id = id
     /\ \A r \in Positions(msgs) : Before(r, p) => At(msgs, r).id # id}

HasUrl(att) == att.url # Undefined /\ att.url # ""

Registered(type) ==
  \E s \in DOMAIN videoPerceptionSpecs :
    \E t \in DOMAIN videoPerceptionSpecs[s].types : videoPerceptionSpecs[s].types[t] = type

\* the three malformed requests: unknown id, no url, unsupported type
Malformed(msgs, id) ==
  \/ NoMatch(msgs, id)
  \/ \E p \in Resolved(msgs, id) : ~HasUrl(At(msgs, p))
  \/ \E p \in Resolved(msgs, id) : HasUrl(At(msgs, p)) /\ ~Registered(At(msgs, p).type)

\* C1: in every invocation whose backend call succeeded, a call of agent.act
\* is made only once e.commit() has been called earlier in that invocation and
\* its promise is fulfilled: never while the commit is unstarted or pending.
C1_CommitBeforeResume ==
  \A i \in Invocations : \A k \in DOMAIN log[i] :
    (describeP[i].state = "fulfilled" /\ log[i][k].op = "act") =>
      /\ commitP[i].state = "fulfilled"
      /\ \E j \in 1..(k - 1) : log[i][j].op = "commit"

C1_Witness ==
  \E i \in Invocations :
    /\ pc[i] = "done"
    /\ describeP[i].state = "fulfilled"
    /\ Calls(i, "act") = 1

\* C5: when a successful invocation has returned, its last call is the resuming
\* agent.act, whose options carry excludeActions containing 'mediaPerception',
\* which is also the type the action is rendered under.
C5_ResumeExcludesOwnType ==
  \A i \in Invocations :
    (pc[i] = "done" /\ describeP[i].state = "fulfilled") =>
      LET call == log[i][Len(log[i])]
      IN /\ call.op = "act"
         /\ Len(call.arguments) = 2
         /\ includes(call.arguments[2].excludeActions, "mediaPerception")
         /\ descriptor.rendered
         /\ includes(call.arguments[2].excludeActions, descriptor.type)

C5_Witness ==
  \E i \in Invocations :
    /\ pc[i] = "done"
    /\ describeP[i].state = "fulfilled"
    /\ Len(log[i]) = 3

\* pairs is the positional zip of qs with answers: one pair per question, the
\* k-th pair made of the k-th question and the k-th answer (undefined past the
\* end of the answers, as the spec's data model defines the zip)
IsZip(pairs, qs, answers) ==
  /\ Len(pairs) = Len(qs)
  /\ \A k \in 1..Len(qs) :
       /\ pairs[k].q = qs[k]
       /\ pairs[k].a = (IF k <= Len(answers) THEN answers[k] ELSE Undefined)

\* C6: every e.commit() call sees a payload whose queries is the zip of the
\* request's questions with the backend's answers, and the message of the
\* resuming agent.act holds the id of the requested attachment and, under the
\* keys "0", "1", ..., the same question/answer pairs.
C6_CommitAndResumeCarryPairs ==
  \A i \in Invocations : \A k \in DOMAIN log[i] :
    /\ log[i][k].op = "commit" =>
         /\ "queries" \in DOMAIN log[i][k].args
         /\ IsZip(log[i][k].args.queries, args.questions, describeP[i].value)
    /\ (log[i][k].op = "act" /\ Len(log[i][k].arguments) > 0) =>
         LET json == log[i][k].arguments[1].json
         IN /\ json.attachmentId = args.id
            /\ DOMAIN json.indexed = 0..(Len(args.questions) - 1)
            /\ \A n \in 1..Len(args.questions) :
                 /\ json.indexed[n - 1].q = args.questions[n]
                 /\ n <= Len(describeP[i].value) =>
                      json.indexed[n - 1].a = describeP[i].value[n]

C6_Witness ==
  \E i \in Invocations :
    /\ pc[i] = "done"
    /\ Calls(i, "commit") = 1
    /\ Len(args.questions) = 2
    /\ Len(describeP[i].value) = 2
    /\ args.questions[1] # args.questions[2]
    /\ describeP[i].value[1] # describeP[i].value[2]
    /\ Len(log[i][3].arguments) = 2

\* C8: once the backend call has failed, the invocation has called the backend
\* once and made no other call (no commit, no agent.act), and it ends by
\* throwing: it is suspended at the backend call or has thrown.
C8_BackendFailurePropagates ==
  \A i \in Invocations :
    describeP[i].state = "rejected" =>
      /\ pc[i] \in {"describe", "threw"}
      /\ Calls(i, "describe") = 1
      /\ Calls(i, "commit") = 0
      /\ Calls(i, "act") = 0

C8_Witness ==
  \E i \in Invocations : describeP[i].state = "rejected" /\ pc[i] = "threw"

\* C10: whatever the number of invocations that have already ended in retry(),
\* an invocation with a malformed request (unknown id, no url, unsupported
\* type) returns normally after exactly one agent.act() with no arguments.
C10_MalformedAlwaysRetried ==
  \A i \in Invocations :
    (pc[i] # "idle" /\ Malformed(messages, args.id)) =>
      /\ pc[i] = "done"
      /\ RetriedOnce(i)
      /\ retries \in 1..MaxRequests

C10_Witness ==
  \E i \in Invocations :
    /\ retries = MaxRequests
    /\ MaxRequests >= 3
    /\ pc[i] = "done"
    /\ RetriedOnce(i)
    /\ Malformed(messages, args.id)

\* invocation i runs the handler up to its first suspension or return
Starts(i) == pc[i] = "idle" /\ pc'[i] # "idle"

\* after the step invocation i has returned, having made exactly one call,
\* agent.act() with no arguments; and a returned invocation makes no more calls
ReturnsWithOneRetry(i) ==
  /\ pc'[i] = "done"
  /\ Len(log'[i]) = 1
  /\ log'[i][1].op = "act"
  /\ Len(log'[i][1].arguments) = 0

StaysReturned(i) == (pc[i] = "done" /\ pc'[i] = "done") => log'[i] = log[i]

\* C2: when the handler runs on a request whose id is the id of no attachment
\* of any message, it returns after exactly one retry(): one agent.act() with
\* no arguments, no backend call, no commit; and it makes no call afterwards.
C2_UnknownIdRetries ==
  [][\A i \in Invocations :
       /\ (Starts(i) /\ NoMatch(messages, args.id)) => ReturnsWithOneRetry(i)
       /\ StaysReturned(i)]_vars

C2_Witness ==
  \E i \in Invocations :
    /\ pc[i] = "done"
    /\ RetriedOnce(i)
    /\ NoMatch(messages, args.id)
    /\ Positions(messages) # {}

\* C3: when the handler runs on a request whose id resolves to an attachment
\* with no url (undefined or empty), of whatever type, it returns after exactly
\* one retry(): no backend call, no commit; and it makes no call afterwards.
C3_NoUrlRetries ==
  [][\A i \in Invocations :
       /\ (Starts(i) /\ \E p \in Resolved(messages, args.id) : ~HasUrl(At(messages, p)))
            => ReturnsWithOneRetry(i)
       /\ StaysReturned(i)]_vars

C3_Witness ==
  \E i \in Invocations :
    /\ pc[i] = "done"
    /\ RetriedOnce(i)
    /\ \E p \in Resolved(messages, args.id) :
         ~HasUrl(At(messages, p)) /\ Registered(At(messages, p).type)

\* C4: when the handler runs on a request whose id resolves to an attachment
\* with a url whose type is a type of no registered spec, it returns after
\* exactly one retry(): no backend call, no commit; and no call afterwards.
C4_UnsupportedTypeRetries ==
  [][\A i \in Invocations :
       /\ (Starts(i) /\ \E p \in Resolved(messages, args.id) :
                          HasUrl(At(messages, p)) /\ ~Registered(At(messages, p).type))
            => ReturnsWithOneRetry(i)
       /\ StaysReturned(i)]_vars

C4_Witness ==
  \E i \in Invocations :
    /\ pc[i] = "done"
    /\ RetriedOnce(i)
    /\ \E p \in Resolved(messages, args.id) :
         /\ HasUrl(At(messages, p))
         /\ At(messages, p).type = ImageJpeg \o PlusFoo

\* C7: for lists of equal length makeQa returns one pair per question, the
\* k-th pair being {q: questions[k], a: answers[k]} for every k.
C7_MakeQaPreservesOrder ==
  \A i \in Invocations :
    (pc[i] = "done" /\ Len(questions[i]) = Len(describeP[i].value)) =>
      /\ Len(qa[i]) = Len(questions[i])
      /\ \A k \in 1..Len(questions[i]) :
           qa[i][k] = [q |-> questions[i][k], a |-> describeP[i].value[k]]

C7_Witness ==
  \E i \in Invocations :
    /\ pc[i] = "done"
    /\ Len(questions[i]) = 3
    /\ Len(describeP[i].value) = 3
    /\ questions[i][1] # questions[i][2]
    /\ describeP[i].value[2] # describeP[i].value[3]
    /\ Len(qa[i]) = 3

\* the type up to its first '+' (the whole type if it has none) is one of the
\* supported types
SupportedBase == {ImageJpeg, ImagePng, ImageWebp}

SupportedAfterStrip(type) ==
  \E n \in 0..Len(type) :
    /\ n = Len(type) \/ type[n + 1] = "+"
    /\ \A j \in 1..n : type[j] # "+"
    /\ SubSeq(type, 1, n) \in SupportedBase

\* desc lists, in order and unchanged, exactly the attachments of atts whose
\* type is supported once stripped; with none of them nothing is rendered
ListsExactly(desc, atts) ==
  LET qualifying == {k \in DOMAIN atts : SupportedAfterStrip(atts[k].type)}
  IN IF qualifying = {} THEN ~desc.rendered
     ELSE /\ desc.rendered
          /\ Len(desc.attachments) = Cardinality(qualifying)
          /\ \A k \in qualifying :
               desc.attachments[Cardinality({q \in qualifying : q <= k})] = atts[k]

\* C9: whenever the component renders, the descriptor lists exactly the
\* collected attachments whose type, cut at its first '+', is a supported
\* type, each with its original type string.
C9_FilterStripsPlusSuffix ==
  [][descriptor' # descriptor => ListsExactly(descriptor', collectAttachments(messages'))]_vars

C9_Witness ==
  /\ descriptor = render(messages)
  /\ descriptor.rendered
  /\ \E k \in DOMAIN descriptor.attachments :
       descriptor.attachments[k].type = ImagePng \o PlusFoo \o PlusXml
  /\ \E k \in DOMAIN collectAttachments(messages) :
       collectAttachments(messages)[k].type = VideoMp4 \o PlusFoo

\* invocation i writes queries and calls e.commit() in this step
CommitsNow(i) == pc[i] = "describe" /\ pc'[i] = "commit"

\* each invocation runs on its own locals and is never held back by the other
C11_Independent ==
  \A i \in Invocations :
    /\ (pc[i] # "idle" /\ ~Malformed(messages, args.id)) => Calls(i, "describe") = 1
    /\ (pc[i] \in {"commit", "done", "threw"} /\ describeP[i].state = "fulfilled")
         => Calls(i, "commit") = 1
    /\ pc[i] = "idle" => ENABLED HandlerStart(i)
    /\ (pc[i] = "describe" /\ describeP[i].state # "pending") => ENABLED AfterDescribe(i)
    /\ (pc[i] = "commit" /\ commitP[i].state # "pending") => ENABLED AfterCommit(i)

\* C11: with two invocations interleaving on one triggering message, each
\* invocation of a well-formed request calls the backend exactly once and,
\* once its answers are in, commits exactly once, whatever the other one does;
\* neither is held back by the other; and the payload's queries changes only
\* when an invocation commits, to that invocation's own pairs, so it holds the
\* pairs of whichever invocation wrote last.
C11_LastWriteWins ==
  /\ []C11_Independent
  /\ [][\A i \in Invocations :
          CommitsNow(i) =>
            ("queries" \in DOMAIN args'
               /\ IsZip(args'.queries, args.questions, describeP[i].value))]_vars
  /\ [][(args' # args) => (\E i \in Invocations : CommitsNow(i))]_vars

C11_Witness ==
  /\ pc[1] = "done"
  /\ pc[2] = "done"
  /\ Calls(1, "describe") = 1 /\ Calls(2, "describe") = 1
  /\ Calls(1, "commit") = 1 /\ Calls(2, "commit") = 1
  /\ qa[1] # qa[2]
  /\ args.queries = qa[1]
  /\ log[2][2].args.queries = qa[2]
  /\ log[1][2].args.queries = qa[1]

\* a step of the handler's own code in invocation i (not the backend or the
\* host settling a promise, nor the conversation or the agent)
HandlerStep(i) == pc[i] \in {"idle", "describe", "commit"} /\ pc'[i] # pc[i]

\* the payload after the step is the payload before it with queries set
SetsQueriesOnly ==
  /\ DOMAIN args' = DOMAIN args \cup {"queries"}
  /\ \A k \in DOMAIN args \ {"queries"} : args'[k] = args[k]

\* C12: no step of the handler changes the messages, their attachments or the
\* rendered descriptor; the payload changes only in the step that calls
\* e.commit(), which happens at most once per invocation and only sets
\* queries; so after a retry or a backend failure the payload has no queries.
C12_OnlyWriteIsQueries ==
  /\ [](\A i \in Invocations :
          /\ Calls(i, "commit") <= 1
          /\ ((pc[i] = "done" /\ RetriedOnce(i)) \/ describeP[i].state = "rejected")
               => "queries" \notin DOMAIN args)
  /\ [][\A i \in Invocations :
          HandlerStep(i) =>
            (/\ messages' = messages
             /\ descriptor' = descriptor
             /\ IF CommitsNow(i) THEN SetsQueriesOnly ELSE args' = args)]_vars

C12_Witness ==
  \E i \in Invocations :
    /\ pc[i] = "done"
    /\ RetriedOnce(i)
    /\ "queries" \notin DOMAIN args
    /\ \E p \in Resolved(messages, args.id) : ~HasUrl(At(messages, p))
    /\ Len(messages) = 2

\* the call passes options that exclude this action type
Excludes(call, type) ==
  /\ Len(call.arguments) >= 2
  /\ "excludeActions" \in DOMAIN call.arguments[2]
  /\ includes(call.arguments[2].excludeActions, type)

\* invocation i has made one agent.act call and that call has no arguments
OneBareAct(i) ==
  /\ Calls(i, "act") = 1
  /\ \A k \in DOMAIN log[i] :
       log[i][k].op = "act" =>
         /\ Len(log[i][k].arguments) = 0
         /\ ~Excludes(log[i][k], ActionType)

\* C13: on each of the three malformed-request paths (unknown id, no url,
\* unregistered type) the invocation makes a single agent.act call, with no
\* arguments: no context message and no options, so 'mediaPerception' is not
\* excluded.
C13_RetryHasNoArguments ==
  \A i \in Invocations :
    /\ (pc[i] # "idle" /\ NoMatch(messages, args.id)) => OneBareAct(i)
    /\ (pc[i] # "idle" /\ \E p \in Resolved(messages, args.id) : ~HasUrl(At(messages, p)))
         => OneBareAct(i)
    /\ (pc[i] # "idle" /\ \E p \in Resolved(messages, args.id) :
                            HasUrl(At(messages, p)) /\ ~Registered(At(messages, p).type))
         => OneBareAct(i)

C13_Witness ==
  \E i \in Invocations :
    /\ pc[i] = "done"
    /\ log[i] = <<ActCall(<<>>)>>
    /\ ~Excludes(log[i][1], ActionType)
    /\ \E p \in Resolved(messages, args.id) :
         HasUrl(At(messages, p)) /\ ~Registered(At(messages, p).type)
    /\ requests >= 2

\* C14: the handler selects a backend exactly when the stored type string of
\* the resolved attachment (which has a url) equals a registered type; with
\* any other string, a '+'-suffixed supported type included, it makes no
\* backend call and returns after one retry().
C14_ExactRouting ==
  [][\A i \in Invocations :
       Starts(i) =>
         \A p \in Resolved(messages, args.id) :
           HasUrl(At(messages, p)) =>
             IF Registered(At(messages, p).type)
             THEN /\ pc'[i] = "describe"
                  /\ log'[i] = <<DescribeCall(At(messages, p).url, args.questions)>>
             ELSE ReturnsWithOneRetry(i)]_vars

C14_Witness ==
  \E i \in Invocations :
    /\ pc[i] = "done"
    /\ RetriedOnce(i)
    /\ Calls(i, "describe") = 0
    /\ \E p \in Resolved(messages, args.id) :
         /\ HasUrl(At(messages, p))
         /\ At(messages, p).type = ImagePng \o <<"x">>

\* C15: the handler resolves the requested id to the attachment that comes
\* first in message order and, within a message, in attachment order; that
\* attachment alone decides between the backend call (on its url) and
\* retry(), whatever later attachments with the same id look like.
C15_FirstMatchDecides ==
  [][\A i \in Invocations :
       Starts(i) =>
         /\ NoMatch(messages, args.id) => attachment'[i] = <<>>
         /\ \A p \in Resolved(messages, args.id) :
              /\ attachment'[i] = <<At(messages, p)>>
              /\ IF HasUrl(At(messages, p)) /\ Registered(At(messages, p).type)
                 THEN /\ pc'[i] = "describe"
                      /\ log'[i] = <<DescribeCall(At(messages, p).url, args.questions)>>
                 ELSE ReturnsWithOneRetry(i)]_vars

C15_Witness ==
  \E i \in Invocations :
    /\ pc[i] = "done"
    /\ RetriedOnce(i)
    /\ \E p \in Positions(messages), r \in Positions(messages) :
         /\ p[1] < r[1]
         /\ At(messages, p).id = args.id
         /\ At(messages, r).id = args.id
         /\ ~HasUrl(At(messages, p))
         /\ HasUrl(At(messages, r))
         /\ Registered(At(messages, r).type)

\* the resuming call of invocation i, as a set of at most one log entry
ResumeCalls(i) == {log[i][k] : k \in {j \in DOMAIN log[i] : log[i][j].op = "act"}}

\* C16: whatever number of answers the backend returned, the continuation
\* runs and commits once; the assembled list has one pair per question, pair k
\* carrying answers[k] while k is within the answers and undefined beyond, and
\* answers beyond the questions appear nowhere; once the commit is through
\* the agent is resumed with these pairs.
C16_NoAnswerCountCheck ==
  \A i \in Invocations :
    LET answers == describeP[i].value
    IN /\ (pc[i] = "describe" /\ describeP[i].state = "fulfilled") => ENABLED AfterDescribe(i)
       /\ (pc[i] \in {"commit", "done", "threw"} /\ describeP[i].state = "fulfilled") =>
            /\ Calls(i, "commit") = 1
            /\ Len(qa[i]) = Len(questions[i])
            /\ \A k \in 1..Len(questions[i]) :
                 /\ qa[i][k].q = questions[i][k]
                 /\ k <= Len(answers) => qa[i][k].a = answers[k]
                 /\ k > Len(answers) => qa[i][k].a = Undefined
            /\ pc[i] = "threw" => commitP[i].state = "rejected"
            /\ commitP[i].state = "fulfilled" => ((ENABLED AfterCommit(i)) \/ pc[i] = "done")
            /\ pc[i] = "done" => ResumeCalls(i) = {resume(attachment[i][1], qa[i])}

C16_Witness ==
  \E i \in Invocations :
    /\ pc[i] = "done"
    /\ Len(questions[i]) = 2
    /\ Len(describeP[i].value) = 1
    /\ qa[i][2].a = Undefined
    /\ Calls(i, "commit") = 1
    /\ Calls(i, "act") = 1

\* the agent.act calls of invocation i that are retry() and that resume
RetryActs(i) == {k \in DOMAIN log[i] : log[i][k].op = "act" /\ Len(log[i][k].arguments) = 0}
ResumeActs(i) == {k \in DOMAIN log[i] : log[i][k].op = "act" /\ Len(log[i][k].arguments) > 0}

\* C17: an invocation calls agent.act at most once, so never both retry() and
\* the resuming call; an invocation that has returned has called it exactly
\* once, and one that ended without the call ended on a rejected backend call
\* or a rejected commit.
C17_AtMostOneAct ==
  \A i \in Invocations :
    /\ Calls(i, "act") <= 1
    /\ RetryActs(i) = {} \/ ResumeActs(i) = {}
    /\ (Settled(i) /\ describeP[i].state # "rejected" /\ commitP[i].state # "rejected")
         => Cardinality(RetryActs(i)) + Cardinality(ResumeActs(i)) = 1
    /\ (Settled(i) /\ Calls(i, "act") = 0)
         => (describeP[i].state = "rejected" \/ commitP[i].state = "rejected")
    /\ (describeP[i].state = "rejected" \/ commitP[i].state = "rejected")
         => Calls(i, "act") = 0

C17_Witness ==
  \E i \in Invocations :
    /\ Settled(i)
    /\ describeP[i].state = "fulfilled"
    /\ commitP[i].state = "fulfilled"
    /\ Cardinality(ResumeActs(i)) = 1
    /\ RetryActs(i) = {}
    /\ retries = 0
    /\ requests = MaxRequests

\* C18: once e.commit() has been rejected, the invocation has made no
\* agent.act call and makes none, it ends by throwing, and the payload still
\* carries the queries written before the commit: the pairs of the questions
\* with the backend's answers.
C18_CommitFailureLeavesQueries ==
  \A i \in Invocations :
    commitP[i].state = "rejected" =>
      /\ pc[i] \in {"commit", "threw"}
      /\ pc[i] = "commit" => ENABLED AfterCommit(i)
      /\ Calls(i, "act") = 0
      /\ describeP[i].state = "fulfilled"
      /\ "queries" \in DOMAIN args
      /\ args.queries = qa[i]
      /\ IsZip(args.queries, args.questions, describeP[i].value)

C18_Witness ==
  \E i \in Invocations :
    /\ commitP[i].state = "rejected"
    /\ pc[i] = "threw"
    /\ Calls(i, "act") = 0
    /\ "queries" \in DOMAIN args
    /\ Len(args.queries) = 2
    /\ args.queries[1].a # Undefined

\* the descriptor lists this attachment
Listed(desc, att) ==
  desc.rendered /\ \E k \in DOMAIN desc.attachments : desc.attachments[k] = att

\* a supported base type followed by a '+' suffix
SuffixedSupported(type) == SupportedAfterStrip(type) /\ type \notin SupportedBase

\* listed on a render, yet a request for it can only end in retry()
AdvertisedOnly(att) ==
  \/ SuffixedSupported(att.type)
  \/ att.type \in SupportedBase /\ ~HasUrl(att)

\* what the handler sends to a backend
Processable(att) == att.type \in SupportedBase /\ HasUrl(att)

\* C19: each render lists every attachment of the conversation that has a
\* '+'-suffixed supported type or a supported type without url, and a request
\* that resolves to such an attachment returns after one retry() with no
\* backend call; and each render lists every attachment that has an exact
\* supported type and a url, the ones a request reaches the backend with.
C19_AdvertisedNotQueryable ==
  /\ [][descriptor' # descriptor =>
          \A p \in Positions(messages') :
            (AdvertisedOnly(At(messages', p)) \/ Processable(At(messages', p)))
              => Listed(descriptor', At(messages', p))]_vars
  /\ [][\A i \in Invocations :
          Starts(i) =>
            \A p \in Resolved(messages, args.id) :
              /\ AdvertisedOnly(At(messages, p)) => ReturnsWithOneRetry(i)
              /\ Processable(At(messages, p)) => pc'[i] = "describe"
              /\ pc'[i] = "describe" => Processable(At(messages, p))]_vars

C19_Witness ==
  \E i \in Invocations :
    /\ pc[i] = "done"
    /\ RetriedOnce(i)
    /\ descriptor.rendered
    /\ Len(descriptor.attachments) = 2
    /\ \E p \in Resolved(messages, args.id) :
         /\ At(messages, p) = [id |-> args.id, type |-> ImageJpeg \o PlusFoo,
                               url |-> "http://x/1.png"]
         /\ Listed(descriptor, At(messages, p))
    /\ \E k \in DOMAIN descriptor.attachments :
         descriptor.attachments[k].type = ImagePng /\ ~HasUrl(descriptor.attachments[k])

\* some attachment of the conversation passes the availability filter
SomeAvailable(msgs) ==
  \E p \in Positions(msgs) : SupportedAfterStrip(At(msgs, p).type)

\* C20: the handler looks the id up in the messages as they are when it
\* starts: an attachment the rendered descriptor does not list, appended
\* since the render, is the one resolved, and is sent to the backend if it
\* can be processed; each render yields the action exactly when some
\* attachment passes the filter, and the handler runs only on a rendered
\* action.
C20_ResolvesAgainstLiveHistory ==
  /\ [][\A i \in Invocations :
          Starts(i) =>
            /\ descriptor.rendered
            /\ \A p \in Resolved(messages, args.id) :
                 ~Listed(descriptor, At(messages, p)) =>
                   /\ attachment'[i] = <<At(messages, p)>>
                   /\ Processable(At(messages, p)) =>
                        log'[i] = <<DescribeCall(At(messages, p).url, args.questions)>>]_vars
  /\ [][descriptor' # descriptor => (descriptor'.rendered <=> SomeAvailable(messages'))]_vars
  /\ [](descriptor.rendered => SomeAvailable(messages))

C20_Witness ==
  \E i \in Invocations :
    /\ pc[i] = "done"
    /\ Calls(i, "describe") = 1
    /\ descriptor.rendered
    /\ descriptor # render(messages)
    /\ attachment[i] # <<>>
    /\ ~Listed(descriptor, attachment[i][1])
    /\ \A k \in DOMAIN descriptor.attachments : descriptor.attachments[k].id # args.id

====
